---------------------------- MODULE Spec2Model ----------------------------
(***************************************************************************)
(* A model of v8::internal::SyntheticModule (src/objects/synthetic-module.cc)*)
(* One module record, its export table, the cells and promises of the heap, *)
(* the isolate's pending exception, and the calls the embedder and the host *)
(* evaluation steps can make on it, in any order (specification Spec); and  *)
(* a model of RegisterRepresentation and MemoryRepresentation               *)
(* (src/compiler/turboshaft/representations.h): two values, the build they  *)
(* were compiled for, and the conversions between them (RepSpec).           *)
(***************************************************************************)
EXTENDS Integers, Sequences, FiniteSets, TLC

(***************************************************************************)
(* Bounds of the model.                                                     *)
(***************************************************************************)
\* Longest list of declared export names a module is constructed with.
MaxExports == 2
\* Number of Evaluate calls made on the module (re-entrant ones included).
MaxEvaluate == 2
\* Number of PrepareInstantiate calls that return normally.
MaxPrepare == 2

(***************************************************************************)
(* Objects.  Every heap reference or immediate is a record <<tag, v>>.      *)
(***************************************************************************)
Undefined == [tag |-> "undefined", v |-> 0]
TheHole == [tag |-> "the_hole", v |-> 0]
Smi(n) == [tag |-> "smi", v |-> n]
CellRef(i) == [tag |-> "cell", v |-> i]
PromiseRef(i) == [tag |-> "promise", v |-> i]

IsCell(o) == o.tag = "cell"
IsTheHole(o) == o.tag = "the_hole"
IsJSPromise(o) == o.tag = "promise"

\* Error objects: constructor kind, message template, template arguments.
NewError(kind, template, args) ==
    [kind |-> kind, template |-> template, args |-> args]
NoException == NewError("the_hole", "", <<>>)
NewReferenceError(template, name) == NewError("ReferenceError", template, <<name>>)
NewSyntaxError(template, specifier, name) ==
    NewError("SyntaxError", template, <<specifier, name>>)
kModuleExportUndefined == "kModuleExportUndefined"
kUnresolvableExport == "kUnresolvableExport"

\* Module::Status values.
kUnlinked == "kUnlinked"
kLinking == "kLinking"
kLinked == "kLinked"
kEvaluating == "kEvaluating"
kEvaluated == "kEvaluated"
kErrored == "kErrored"

(***************************************************************************)
(* Inputs.                                                                  *)
(***************************************************************************)
Names == {"a", "b"}
Specifiers == {"m"}
\* Values written into exports.
ExportValues == {Smi(42), Smi(7)}
\* What the host evaluation steps throw.
HostErrors == {NewError("thrown", "", <<"boom">>), NewError("thrown", "", <<"bang">>)}
\* Promises the host holds before Evaluate: one pending, one already resolved.
HostPromises ==
    << [state |-> "pending", result |-> Undefined],
       [state |-> "fulfilled", result |-> Smi(7)] >>
\* What the host evaluation steps return.
HostResults == {Smi(7)} \cup {PromiseRef(i) : i \in 1..Len(HostPromises)}

RECURSIVE SeqsUpTo(_)
SeqsUpTo(n) ==
    IF n = 0 THEN {<<>>}
    ELSE LET shorter == SeqsUpTo(n - 1)
         IN shorter \cup {Append(s, x) : s \in {t \in shorter : Len(t) = n - 1}, x \in Names}

Range(s) == {s[i] : i \in 1..Len(s)}

VARIABLES
    export_names,          \* SyntheticModule::export_names (FixedArray)
    exports,               \* SyntheticModule::exports (ObjectHashTable)
    status,                \* Module::status
    exception,             \* Module::exception
    top_level_capability,  \* Module::top_level_capability
    cells,                 \* the heap's Cells: cells[i] is the value of cell i
    promises,              \* the heap's JSPromises
    pending_exception,     \* Isolate::pending_exception
    depth,                 \* Evaluate frames on the call stack (host steps running)
    fatal,                 \* a CHECK failed: the process is gone
    evaluate_calls,        \* history: Evaluate calls entered
    host_calls,            \* history: invocations of the evaluation steps
    prepare_returns,       \* history: PrepareInstantiate calls that returned
    lastWrite,             \* history: per name, the value last written to it
    host_write,            \* history: the last write, when the host made it
    last                   \* history: the last call and what it returned

\* representations.h
VARIABLES
    kSystemPointerSize,    \* build constant: bytes of a machine pointer
    kTaggedSizeLog2,       \* build constant: log2 of the bytes of a tagged slot
    register_rep,          \* a RegisterRepresentation (its value_)
    memory_rep,            \* a MemoryRepresentation (its value_)
    rep_last               \* history: the last conversion and its argument

rep_vars == <<kSystemPointerSize, kTaggedSizeLog2, register_rep, memory_rep,
              rep_last>>

vars == <<export_names, exports, status, exception, top_level_capability, cells,
          promises, pending_exception, depth, fatal, evaluate_calls, host_calls,
          prepare_returns, lastWrite, host_write, last, rep_vars>>

(***************************************************************************)
(* Collaborators: ObjectHashTable, Factory, JSPromise, Module.              *)
(***************************************************************************)
EmptyTable == [k \in {} |-> TheHole]
\* ObjectHashTable::Lookup: the hole when the key is absent.
Lookup(table, key) == IF key \in DOMAIN table THEN table[key] ELSE TheHole
\* ObjectHashTable::Put
Put(table, key, value) ==
    [k \in (DOMAIN table) \cup {key} |-> IF k = key THEN value ELSE table[k]]
\* Factory::NewCell: a fresh cell holding undefined.
NewCell(heap) == [heap |-> Append(heap, Undefined), cell |-> CellRef(Len(heap) + 1)]
\* Factory::NewJSPromise: a fresh pending promise.
NewJSPromise(heap) ==
    [heap |-> Append(heap, [state |-> "pending", result |-> Undefined]),
     promise |-> PromiseRef(Len(heap) + 1)]
\* JSPromise::Resolve with a non-thenable value.
JSPromiseResolve(heap, p, value) ==
    IF heap[p.v].state = "pending"
    THEN [heap EXCEPT ![p.v] = [state |-> "fulfilled", result |-> value]]
    ELSE heap

NoCall ==
    [op |-> "none", specifier |-> "", name |-> "", must_resolve |-> FALSE,
     value |-> TheHole, thrown |-> NoException, ret |-> "", obj |-> TheHole]
Call(op, specifier, name, must_resolve, value, ret, obj) ==
    [op |-> op, specifier |-> specifier, name |-> name,
     must_resolve |-> must_resolve, value |-> value, thrown |-> NoException,
     ret |-> ret, obj |-> obj]
NoWrite == [name |-> "", value |-> TheHole, strict |-> FALSE]

(***************************************************************************)
(* representations.h: RegisterRepresentation and MemoryRepresentation.      *)
(***************************************************************************)
RegisterRepresentation(value) == [class |-> "RegisterRepresentation", value_ |-> value]
MemoryRepresentation(value) == [class |-> "MemoryRepresentation", value_ |-> value]

\* RegisterRepresentation::Enum
RegisterEnum ==
    {"kWord32", "kWord64", "kFloat32", "kFloat64", "kTagged", "kCompressed",
     "kSimd128"}
\* MemoryRepresentation::Enum
MemoryEnum ==
    {"kInt8", "kUint8", "kInt16", "kUint16", "kInt32", "kUint32", "kInt64",
     "kUint64", "kFloat32", "kFloat64", "kAnyTagged", "kTaggedPointer",
     "kTaggedSigned", "kSandboxedPointer", "kSimd128"}
RegisterRepresentations == {RegisterRepresentation(e) : e \in RegisterEnum}
MemoryRepresentations == {MemoryRepresentation(e) : e \in MemoryEnum}

Word32 == RegisterRepresentation("kWord32")
Word64 == RegisterRepresentation("kWord64")
Tagged == RegisterRepresentation("kTagged")
Compressed == RegisterRepresentation("kCompressed")
Int32 == MemoryRepresentation("kInt32")
Uint32 == MemoryRepresentation("kUint32")
Int64 == MemoryRepresentation("kInt64")
Uint64 == MemoryRepresentation("kUint64")
AnyTagged == MemoryRepresentation("kAnyTagged")

\* The builds: a pointer of 4 or 8 bytes, a tagged slot of 4 or 8 bytes that
\* is no larger than a pointer.
PointerSizes == {4, 8}
TaggedSizeLog2s == {2, 3}

\* UNREACHABLE(): no value is returned, the process stops.
Unreachable == [class |-> "UNREACHABLE", value_ |-> ""]

\* RegisterRepresentation::IsWord
RegisterIsWord(r) ==
    CASE r.value_ \in {"kWord32", "kWord64"} -> TRUE
      [] r.value_ \in {"kFloat32", "kFloat64", "kTagged", "kCompressed",
                       "kSimd128"} -> FALSE

\* RegisterRepresentation::bit_width, a uint16_t.
bit_width(r) ==
    (CASE r.value_ = "kWord32" -> 32
       [] r.value_ = "kWord64" -> 64
       [] r.value_ = "kFloat32" -> 32
       [] r.value_ = "kFloat64" -> 64
       [] r.value_ = "kTagged" -> kSystemPointerSize
       [] r.value_ = "kCompressed" -> kSystemPointerSize
       [] r.value_ = "kSimd128" -> 128) % (2 ^ 16)

\* MemoryRepresentation::IsWord
MemoryIsWord(m) ==
    CASE m.value_ \in {"kInt8", "kUint8", "kInt16", "kUint16", "kInt32",
                       "kUint32", "kInt64", "kUint64"} -> TRUE
      [] m.value_ \in {"kFloat32", "kFloat64", "kAnyTagged", "kTaggedPointer",
                       "kTaggedSigned", "kSandboxedPointer", "kSimd128"} -> FALSE

\* MemoryRepresentation::ToRegisterRepresentation
ToRegisterRepresentation(m) ==
    CASE m.value_ \in {"kInt8", "kUint8", "kInt16", "kUint16", "kInt32",
                       "kUint32"} -> Word32
      [] m.value_ \in {"kInt64", "kUint64"} -> Word64
      [] m.value_ = "kFloat32" -> RegisterRepresentation("kFloat32")
      [] m.value_ = "kFloat64" -> RegisterRepresentation("kFloat64")
      [] m.value_ \in {"kAnyTagged", "kTaggedPointer", "kTaggedSigned"} -> Tagged
      [] m.value_ = "kSandboxedPointer" -> Word64
      [] m.value_ = "kSimd128" -> RegisterRepresentation("kSimd128")

\* FromRegisterRepresentation with the two word cases exchanged.
FromRegisterRepresentationSwapped(repr, is_signed) ==
    CASE repr.value_ = "kWord32" -> (IF is_signed THEN Int64 ELSE Uint64)
      [] repr.value_ = "kWord64" -> (IF is_signed THEN Int32 ELSE Uint32)
      [] repr.value_ = "kFloat32" -> MemoryRepresentation("kFloat32")
      [] repr.value_ = "kFloat64" -> MemoryRepresentation("kFloat64")
      [] repr.value_ = "kTagged" -> AnyTagged
      [] repr.value_ = "kSimd128" -> MemoryRepresentation("kSimd128")
      [] repr.value_ = "kCompressed" -> Unreachable

\* MemoryRepresentation::FromRegisterRepresentation
FromRegisterRepresentation(repr, is_signed) ==
    CASE repr.value_ = "kWord32" -> (IF is_signed THEN Int32 ELSE Uint32)
      [] repr.value_ = "kWord64" -> (IF is_signed THEN Int64 ELSE Uint64)
      [] repr.value_ = "kFloat32" -> MemoryRepresentation("kFloat32")
      [] repr.value_ = "kFloat64" -> MemoryRepresentation("kFloat64")
      [] repr.value_ = "kTagged" -> AnyTagged
      [] repr.value_ = "kSimd128" -> MemoryRepresentation("kSimd128")
      [] repr.value_ = "kCompressed" -> Unreachable

\* MemoryRepresentation::SizeInBytesLog2, a uint8_t.
SizeInBytesLog2(m) ==
    (CASE m.value_ \in {"kInt8", "kUint8"} -> 0
       [] m.value_ \in {"kInt16", "kUint16"} -> 1
       [] m.value_ \in {"kInt32", "kUint32", "kFloat32"} -> 2
       [] m.value_ \in {"kInt64", "kUint64", "kFloat64", "kSandboxedPointer"} -> 3
       [] m.value_ \in {"kAnyTagged", "kTaggedPointer", "kTaggedSigned"} ->
            kTaggedSizeLog2
       [] m.value_ = "kSimd128" -> 4) % (2 ^ 8)

\* MemoryRepresentation::SizeInBytes: uint8_t{1} << SizeInBytesLog2().
SizeInBytes(m) == (2 ^ SizeInBytesLog2(m)) % (2 ^ 8)

\* No conversion made yet; made_from is the register representation that
\* memory_rep was converted from, when it was.
NoRepresentation == [class |-> "none", value_ |-> ""]
NoConversion ==
    [op |-> "none", is_signed |-> FALSE, made_from |-> NoRepresentation]

\* The representations at rest: the state of them while a module is used.
RepIdle ==
    /\ kSystemPointerSize = 8
    /\ kTaggedSizeLog2 = 2
    /\ register_rep = Word32
    /\ memory_rep = Int32
    /\ rep_last = NoConversion

Init ==
    /\ export_names \in SeqsUpTo(MaxExports)
    /\ exports = EmptyTable
    /\ status = kUnlinked
    /\ exception = NoException
    /\ top_level_capability = Undefined
    /\ cells = <<>>
    /\ promises = HostPromises
    /\ pending_exception = NoException
    /\ depth = 0
    /\ fatal = FALSE
    /\ evaluate_calls = 0
    /\ host_calls = 0
    /\ prepare_returns = 0
    /\ lastWrite = [n \in Names |-> TheHole]
    /\ host_write = NoWrite
    /\ last = NoCall
    /\ RepIdle

(***************************************************************************)
(* SyntheticModule::SetExport                                               *)
(***************************************************************************)
\* SetExport that reports success and leaves the cell as it was.
SetExportResultLost(export_name, export_value) ==
    LET export_object == Lookup(exports, export_name)
    IN IF ~IsCell(export_object)
       THEN [ret |-> "Nothing", cells |-> cells,
             pending_exception |->
                 NewReferenceError(kModuleExportUndefined, export_name)]
       ELSE [ret |-> "Just(true)", cells |-> cells,
             pending_exception |-> pending_exception]

\* SetExport that ignores a write to a name without a cell.
SetExportResultSilent(export_name, export_value) ==
    LET export_object == Lookup(exports, export_name)
    IN IF ~IsCell(export_object)
       THEN [ret |-> "Just(true)", cells |-> cells,
             pending_exception |-> pending_exception]
       ELSE [ret |-> "Just(true)",
             cells |-> [cells EXCEPT ![export_object.v] = export_value],
             pending_exception |-> pending_exception]

\* What SetExport does to the cells and the pending exception, and returns.
SetExportResult(export_name, export_value) ==
    LET export_object == Lookup(exports, export_name)
    IN IF ~IsCell(export_object)
       THEN [ret |-> "Nothing", cells |-> cells,
             pending_exception |->
                 NewReferenceError(kModuleExportUndefined, export_name)]
       ELSE [ret |-> "Just(true)",
             cells |-> [cells EXCEPT ![export_object.v] = export_value],
             pending_exception |-> pending_exception]

\* The history of writes after a SetExport that returned r.
Written(export_name, export_value, r, strict) ==
    IF r.ret = "Just(true)"
    THEN [lastWrite |-> [lastWrite EXCEPT ![export_name] = export_value],
          host_write |-> IF depth > 0
                         THEN [name |-> export_name, value |-> export_value,
                               strict |-> strict]
                         ELSE NoWrite]
    ELSE [lastWrite |-> lastWrite, host_write |-> host_write]

SetExport(export_name, export_value) ==
    /\ ~fatal
    /\ LET r == SetExportResult(export_name, export_value)
       IN /\ cells' = r.cells
          /\ pending_exception' = r.pending_exception
          /\ lastWrite' = Written(export_name, export_value, r, FALSE).lastWrite
          /\ host_write' = Written(export_name, export_value, r, FALSE).host_write
          /\ last' = Call("SetExport", "", export_name, FALSE, export_value,
                          r.ret, TheHole)
    /\ UNCHANGED <<export_names, exports, status, exception, top_level_capability,
                   promises, depth, fatal, evaluate_calls, host_calls,
                   prepare_returns>>
    /\ UNCHANGED rep_vars

(***************************************************************************)
(* SyntheticModule::SetExportStrict                                         *)
(***************************************************************************)
\* SetExportStrict without its first CHECK.
SetExportStrictCheckRemoved(export_name) == TRUE

\* The first CHECK: the export has a cell.
SetExportStrictCheck(export_name) == IsCell(Lookup(exports, export_name))

SetExportStrict(export_name, export_value) ==
    /\ ~fatal
    /\ IF ~SetExportStrictCheck(export_name)
       THEN /\ fatal' = TRUE
            /\ last' = Call("SetExportStrict", "", export_name, FALSE,
                            export_value, "fatal", TheHole)
            /\ UNCHANGED <<cells, pending_exception, lastWrite, host_write>>
       ELSE LET r == SetExportResult(export_name, export_value)
            IN /\ cells' = r.cells
               /\ pending_exception' = r.pending_exception
               /\ lastWrite' = Written(export_name, export_value, r, TRUE).lastWrite
               /\ host_write' = Written(export_name, export_value, r, TRUE).host_write
               \* CHECK(set_export_result.FromJust())
               /\ fatal' = (r.ret # "Just(true)")
               /\ last' = Call("SetExportStrict", "", export_name, FALSE,
                               export_value,
                               IF r.ret = "Just(true)" THEN "void" ELSE "fatal",
                               TheHole)
    /\ UNCHANGED <<export_names, exports, status, exception, top_level_capability,
                   promises, depth, evaluate_calls, host_calls, prepare_returns>>
    /\ UNCHANGED rep_vars

(***************************************************************************)
(* SyntheticModule::ResolveExport                                           *)
(***************************************************************************)
\* ResolveExport with the test of must_resolve inverted.
ResolveExportResultSwapped(module_specifier, export_name, must_resolve) ==
    LET object == Lookup(exports, export_name)
    IN IF IsCell(object)
       THEN [ret |-> "cell", obj |-> object,
             pending_exception |-> pending_exception]
       ELSE IF must_resolve
       THEN [ret |-> "empty", obj |-> TheHole,
             pending_exception |-> pending_exception]
       ELSE [ret |-> "throw", obj |-> TheHole,
             pending_exception |->
                 NewSyntaxError(kUnresolvableExport, module_specifier, export_name)]

ResolveExportResult(module_specifier, export_name, must_resolve) ==
    LET object == Lookup(exports, export_name)
    IN IF IsCell(object)
       THEN [ret |-> "cell", obj |-> object,
             pending_exception |-> pending_exception]
       ELSE IF ~must_resolve
       THEN [ret |-> "empty", obj |-> TheHole,
             pending_exception |-> pending_exception]
       ELSE [ret |-> "throw", obj |-> TheHole,
             pending_exception |->
                 NewSyntaxError(kUnresolvableExport, module_specifier, export_name)]

ResolveExport(module_specifier, export_name, must_resolve) ==
    /\ ~fatal
    /\ LET r == ResolveExportResult(module_specifier, export_name, must_resolve)
       IN /\ pending_exception' = r.pending_exception
          /\ last' = Call("ResolveExport", module_specifier, export_name,
                          must_resolve, TheHole, r.ret, r.obj)
    /\ UNCHANGED <<export_names, exports, status, exception, top_level_capability,
                   cells, promises, depth, fatal, evaluate_calls, host_calls,
                   prepare_returns, lastWrite, host_write>>
    /\ UNCHANGED rep_vars

(***************************************************************************)
(* SyntheticModule::PrepareInstantiate                                      *)
(***************************************************************************)
\* The loop with NewCell hoisted out of it: every name gets the same cell.
RECURSIVE PrepareLoopOneCell(_, _, _)
PrepareLoopOneCell(i, table, heap) ==
    IF i > Len(export_names)
    THEN [fatal |-> FALSE, exports |-> table, cells |-> heap]
    ELSE LET name == export_names[i]
             grown == IF i = 1 THEN Append(heap, Undefined) ELSE heap
         IN IF ~IsTheHole(Lookup(table, name))
            THEN [fatal |-> TRUE, exports |-> table, cells |-> grown]
            ELSE PrepareLoopOneCell(i + 1,
                                    Put(table, name, CellRef(Len(cells) + 1)),
                                    grown)

\* The loop without its CHECK: an entry that exists is overwritten.
RECURSIVE PrepareLoopOverwrite(_, _, _)
PrepareLoopOverwrite(i, table, heap) ==
    IF i > Len(export_names)
    THEN [fatal |-> FALSE, exports |-> table, cells |-> heap]
    ELSE LET c == NewCell(heap)
         IN PrepareLoopOverwrite(i + 1, Put(table, export_names[i], c.cell), c.heap)

\* The loop from index i on, over the local handle `table` and the heap.
RECURSIVE PrepareLoop(_, _, _)
PrepareLoop(i, table, heap) ==
    IF i > Len(export_names)
    THEN [fatal |-> FALSE, exports |-> table, cells |-> heap]
    ELSE LET c == NewCell(heap)
             name == export_names[i]
         IN IF ~IsTheHole(Lookup(table, name))
            THEN [fatal |-> TRUE, exports |-> table, cells |-> c.heap]
            ELSE PrepareLoop(i + 1, Put(table, name, c.cell), c.heap)

\* PrepareInstantiate with its loop started one index late.
PrepareInstantiateResultFromSecond == PrepareLoop(2, exports, cells)

PrepareInstantiateResult == PrepareLoop(1, exports, cells)

PrepareInstantiate ==
    /\ ~fatal
    /\ prepare_returns < MaxPrepare
    /\ LET r == PrepareInstantiateResult
       IN /\ cells' = r.cells
          /\ fatal' = r.fatal
          \* Put may grow the table in place or return a copy: when the CHECK
          \* stops the loop, the module's table is the old one or the one with
          \* the entries put so far.
          /\ exports' \in (IF r.fatal THEN {exports, r.exports} ELSE {r.exports})
          /\ prepare_returns' = IF r.fatal THEN prepare_returns
                                ELSE prepare_returns + 1
          /\ last' = Call("PrepareInstantiate", "", "", FALSE, TheHole,
                          IF r.fatal THEN "fatal" ELSE "true", TheHole)
    /\ UNCHANGED <<export_names, status, exception, top_level_capability,
                   promises, pending_exception, depth, evaluate_calls,
                   host_calls, lastWrite, host_write>>
    /\ UNCHANGED rep_vars

(***************************************************************************)
(* SyntheticModule::FinishInstantiate                                       *)
(***************************************************************************)
\* FinishInstantiate that sets the wrong status.
FinishInstantiateStatusUnlinked == kUnlinked

\* FinishInstantiate that forgets SetStatus.
FinishInstantiateStatusKept == status

FinishInstantiateStatus == kLinked

\* FinishInstantiate that also puts every Cell back to undefined.
FinishInstantiateResetsCells ==
    /\ ~fatal
    /\ status' = kLinked
    /\ cells' = [j \in DOMAIN cells |-> Undefined]
    /\ last' = Call("FinishInstantiate", "", "", FALSE, TheHole, "true", TheHole)
    /\ UNCHANGED <<export_names, exports, exception, top_level_capability,
                   promises, pending_exception, depth, fatal, evaluate_calls,
                   host_calls, prepare_returns, lastWrite, host_write>>
    /\ UNCHANGED rep_vars

FinishInstantiate ==
    /\ ~fatal
    /\ status' = FinishInstantiateStatus
    /\ last' = Call("FinishInstantiate", "", "", FALSE, TheHole, "true", TheHole)
    /\ UNCHANGED <<export_names, exports, exception, top_level_capability, cells,
                   promises, pending_exception, depth, fatal, evaluate_calls,
                   host_calls, prepare_returns, lastWrite, host_write>>
    /\ UNCHANGED rep_vars

(***************************************************************************)
(* SyntheticModule::Evaluate                                                *)
(***************************************************************************)
\* Module::RecordError
RecordError(error) == [status |-> kErrored, exception |-> error]

\* Evaluate that returns at once, without calling the host, unless kLinked.
EvaluateEnterResultGuarded ==
    IF status = kLinked
    THEN [status |-> kEvaluating, host_calls |-> host_calls + 1,
          depth |-> depth + 1]
    ELSE [status |-> status, host_calls |-> host_calls, depth |-> depth]

\* Up to the call of the evaluation steps: the status, and the host called.
EvaluateEnterResult ==
    [status |-> kEvaluating, host_calls |-> host_calls + 1, depth |-> depth + 1]

\* The call: Evaluate runs until the evaluation steps are on the stack.
EvaluateEnter ==
    /\ ~fatal
    /\ evaluate_calls < MaxEvaluate
    /\ evaluate_calls' = evaluate_calls + 1
    /\ LET r == EvaluateEnterResult
       IN /\ status' = r.status
          /\ host_calls' = r.host_calls
          /\ depth' = r.depth
    /\ host_write' = IF depth = 0 THEN NoWrite ELSE host_write
    /\ last' = Call("EvaluateEnter", "", "", FALSE, TheHole, "", TheHole)
    /\ UNCHANGED <<export_names, exports, exception, top_level_capability, cells,
                   promises, pending_exception, fatal, prepare_returns, lastWrite>>
    /\ UNCHANGED rep_vars

\* The failure path without its return: it runs on into the success path.
EvaluateThrowResultFallThrough(error) ==
    LET r == RecordError(error)
        fresh == NewJSPromise(promises)
    IN [status |-> kEvaluated, exception |-> r.exception,
        pending_exception |-> error,
        top_level_capability |-> fresh.promise,
        promises |-> JSPromiseResolve(fresh.heap, fresh.promise, Undefined),
        ret |-> "empty", obj |-> TheHole]

\* The failure path without RecordError.
EvaluateThrowResultNoRecord(error) ==
    [status |-> status, exception |-> exception, pending_exception |-> error,
     top_level_capability |-> top_level_capability, promises |-> promises,
     ret |-> "empty", obj |-> TheHole]

\* The failure path that also resets the capability.
EvaluateThrowResultClearsCapability(error) ==
    LET r == RecordError(error)
    IN [status |-> r.status, exception |-> r.exception,
        pending_exception |-> error,
        top_level_capability |-> Undefined, promises |-> promises,
        ret |-> "empty", obj |-> TheHole]

\* The evaluation steps failed: ToLocal is false.
EvaluateThrowResult(error) ==
    LET r == RecordError(error)
    IN [status |-> r.status, exception |-> r.exception,
        pending_exception |-> error,
        top_level_capability |-> top_level_capability, promises |-> promises,
        ret |-> "empty", obj |-> TheHole]

\* Evaluate that wraps whatever the host returned in a promise of its own.
EvaluateReturnResultWrap(result) ==
    LET fresh == NewJSPromise(promises)
    IN [status |-> kEvaluated, exception |-> exception,
        pending_exception |-> pending_exception,
        top_level_capability |-> fresh.promise,
        promises |-> JSPromiseResolve(fresh.heap, fresh.promise, Undefined),
        ret |-> "value", obj |-> result]

\* Evaluate that resolves its promise with the value the host returned.
EvaluateReturnResultResolveValue(result) ==
    LET fresh == NewJSPromise(promises)
    IN IF IsJSPromise(result)
       THEN [status |-> kEvaluated, exception |-> exception,
             pending_exception |-> pending_exception,
             top_level_capability |-> result, promises |-> promises,
             ret |-> "value", obj |-> result]
       ELSE [status |-> kEvaluated, exception |-> exception,
             pending_exception |-> pending_exception,
             top_level_capability |-> fresh.promise,
             promises |-> JSPromiseResolve(fresh.heap, fresh.promise, result),
             ret |-> "value", obj |-> result]

\* Evaluate that leaves the promise it creates pending.
EvaluateReturnResultUnresolved(result) ==
    LET fresh == NewJSPromise(promises)
    IN IF IsJSPromise(result)
       THEN [status |-> kEvaluated, exception |-> exception,
             pending_exception |-> pending_exception,
             top_level_capability |-> result, promises |-> promises,
             ret |-> "value", obj |-> result]
       ELSE [status |-> kEvaluated, exception |-> exception,
             pending_exception |-> pending_exception,
             top_level_capability |-> fresh.promise, promises |-> fresh.heap,
             ret |-> "value", obj |-> result]

\* Evaluate that returns the capability instead of the host's value.
EvaluateReturnResultReturnsCapability(result) ==
    LET fresh == NewJSPromise(promises)
    IN IF IsJSPromise(result)
       THEN [status |-> kEvaluated, exception |-> exception,
             pending_exception |-> pending_exception,
             top_level_capability |-> result, promises |-> promises,
             ret |-> "value", obj |-> result]
       ELSE [status |-> kEvaluated, exception |-> exception,
             pending_exception |-> pending_exception,
             top_level_capability |-> fresh.promise,
             promises |-> JSPromiseResolve(fresh.heap, fresh.promise, Undefined),
             ret |-> "value", obj |-> fresh.promise]

\* Evaluate without SetStatus(kEvaluated).
EvaluateReturnResultNoStatus(result) ==
    LET fresh == NewJSPromise(promises)
    IN IF IsJSPromise(result)
       THEN [status |-> status, exception |-> exception,
             pending_exception |-> pending_exception,
             top_level_capability |-> result, promises |-> promises,
             ret |-> "value", obj |-> result]
       ELSE [status |-> status, exception |-> exception,
             pending_exception |-> pending_exception,
             top_level_capability |-> fresh.promise,
             promises |-> JSPromiseResolve(fresh.heap, fresh.promise, Undefined),
             ret |-> "value", obj |-> result]

\* The evaluation steps returned `result`.
EvaluateReturnResult(result) ==
    LET fresh == NewJSPromise(promises)
    IN IF IsJSPromise(result)
       THEN [status |-> kEvaluated, exception |-> exception,
             pending_exception |-> pending_exception,
             top_level_capability |-> result, promises |-> promises,
             ret |-> "value", obj |-> result]
       ELSE [status |-> kEvaluated, exception |-> exception,
             pending_exception |-> pending_exception,
             top_level_capability |-> fresh.promise,
             promises |-> JSPromiseResolve(fresh.heap, fresh.promise, Undefined),
             ret |-> "value", obj |-> result]

\* The end of Evaluate that, when the host threw, undoes the writes: every
\* Cell is put back to undefined.
EvaluateLeaveRestores(r, result, error) ==
    /\ ~fatal
    /\ depth > 0
    /\ depth' = depth - 1
    /\ status' = r.status
    /\ exception' = r.exception
    /\ pending_exception' = r.pending_exception
    /\ top_level_capability' = r.top_level_capability
    /\ promises' = r.promises
    /\ cells' = IF error # NoException
                THEN [j \in DOMAIN cells |-> Undefined]
                ELSE cells
    /\ last' = [Call("Evaluate", "", "", FALSE, result, r.ret, r.obj)
                  EXCEPT !.thrown = error]
    /\ UNCHANGED <<export_names, exports, fatal, evaluate_calls,
                   host_calls, prepare_returns, lastWrite, host_write>>
    /\ UNCHANGED rep_vars

EvaluateLeave(r, result, error) ==
    /\ ~fatal
    /\ depth > 0
    /\ depth' = depth - 1
    /\ status' = r.status
    /\ exception' = r.exception
    /\ pending_exception' = r.pending_exception
    /\ top_level_capability' = r.top_level_capability
    /\ promises' = r.promises
    /\ last' = [Call("Evaluate", "", "", FALSE, result, r.ret, r.obj)
                  EXCEPT !.thrown = error]
    /\ UNCHANGED <<export_names, exports, cells, fatal, evaluate_calls,
                   host_calls, prepare_returns, lastWrite, host_write>>
    /\ UNCHANGED rep_vars

\* The innermost evaluation steps return, and Evaluate runs to its end.
EvaluateHostReturns(result) ==
    EvaluateLeave(EvaluateReturnResult(result), result, NoException)

\* The innermost evaluation steps throw, and Evaluate runs to its end.
EvaluateHostThrows(error) ==
    EvaluateLeave(EvaluateThrowResult(error), TheHole, error)

(***************************************************************************)
(* The conversions of representations.h, applied to the two values.         *)
(***************************************************************************)
\* The module's state but `fatal`: the conversions leave it alone.
module_vars ==
    <<export_names, exports, status, exception, top_level_capability, cells,
      promises, pending_exception, depth, evaluate_calls, host_calls,
      prepare_returns, lastWrite, host_write, last>>

\* A build, and any two representations.
RepInit ==
    /\ export_names = <<>>
    /\ exports = EmptyTable
    /\ status = kUnlinked
    /\ exception = NoException
    /\ top_level_capability = Undefined
    /\ cells = <<>>
    /\ promises = HostPromises
    /\ pending_exception = NoException
    /\ depth = 0
    /\ fatal = FALSE
    /\ evaluate_calls = 0
    /\ host_calls = 0
    /\ prepare_returns = 0
    /\ lastWrite = [n \in Names |-> TheHole]
    /\ host_write = NoWrite
    /\ last = NoCall
    /\ kSystemPointerSize \in PointerSizes
    /\ kTaggedSizeLog2 \in TaggedSizeLog2s
    /\ 2 ^ kTaggedSizeLog2 <= kSystemPointerSize
    /\ register_rep \in RegisterRepresentations
    /\ memory_rep \in MemoryRepresentations
    /\ rep_last = NoConversion

\* register_rep = memory_rep.ToRegisterRepresentation()
ToRegisterRepresentationCall ==
    /\ ~fatal
    /\ register_rep' = ToRegisterRepresentation(memory_rep)
    /\ rep_last' = [rep_last EXCEPT !.op = "ToRegisterRepresentation"]
    /\ UNCHANGED <<kSystemPointerSize, kTaggedSizeLog2, memory_rep, fatal>>
    /\ UNCHANGED module_vars

\* memory_rep = MemoryRepresentation::FromRegisterRepresentation(register_rep,
\* is_signed)
FromRegisterRepresentationCall(is_signed) ==
    /\ ~fatal
    /\ LET result == FromRegisterRepresentation(register_rep, is_signed)
       IN IF result = Unreachable
          THEN /\ fatal' = TRUE
               /\ UNCHANGED memory_rep
               /\ rep_last' = [rep_last EXCEPT !.op = "FromRegisterRepresentation",
                                               !.is_signed = is_signed]
          ELSE /\ memory_rep' = result
               /\ UNCHANGED fatal
               /\ rep_last' = [op |-> "FromRegisterRepresentation",
                               is_signed |-> is_signed,
                               made_from |-> register_rep]
    /\ UNCHANGED <<kSystemPointerSize, kTaggedSizeLog2, register_rep>>
    /\ UNCHANGED module_vars

(***************************************************************************)
(* Properties.                                                              *)
(***************************************************************************)
Declared == Range(export_names)
\* PrepareInstantiate has returned.
Prepared == prepare_returns > 0
\* The value in the cell of a name that has one.
ExportValue(name) == cells[Lookup(exports, name).v]
Fulfilled(value) == [state |-> "fulfilled", result |-> value]

\* C1: after PrepareInstantiate, ResolveExport returns a Cell for every
\* declared name whatever must_resolve is; for a name that is not declared it
\* throws the SyntaxError kUnresolvableExport with the module specifier and the
\* name when must_resolve is true, and returns empty, raising nothing, when
\* must_resolve is false.
C1_ResolveExportTotal ==
    [][(last'.op = "ResolveExport" /\ Prepared) =>
         LET n == last'.name
         IN /\ n \in Declared =>
                 /\ last'.ret = "cell"
                 /\ IsCell(last'.obj)
                 /\ pending_exception' = pending_exception
            /\ (n \notin Declared /\ last'.must_resolve) =>
                 /\ last'.ret = "throw"
                 /\ pending_exception' =
                        NewSyntaxError(kUnresolvableExport, last'.specifier, n)
            /\ (n \notin Declared /\ ~last'.must_resolve) =>
                 /\ last'.ret = "empty"
                 /\ pending_exception' = pending_exception]_vars

C1_Witness ==
    /\ Prepared
    /\ export_names = <<"a">>
    /\ last.op = "ResolveExport"
    /\ last.name = "b"
    /\ last.must_resolve
    /\ last.ret = "throw"
    /\ pending_exception = NewSyntaxError(kUnresolvableExport, "m", "b")

\* C2: after PrepareInstantiate, ResolveExport of a name yields the Cell that
\* holds the value of the last successful SetExport to that name, whatever was
\* written to other names since.
C2_ReadsLastWrite ==
    \A n \in Names :
        lastWrite[n] # TheHole =>
            LET r == ResolveExportResult("m", n, TRUE)
            IN /\ Prepared
               /\ n \in Declared
               /\ r.ret = "cell"
               /\ IsCell(r.obj)
               /\ cells[r.obj.v] = lastWrite[n]

C2_Witness ==
    /\ lastWrite["a"] = Smi(42)
    /\ lastWrite["b"] = Smi(7)
    /\ last.op = "SetExport"
    /\ last.name = "b"
    /\ last.ret = "Just(true)"
    /\ ExportValue("a") = Smi(42)

\* C3: SetExport of a name without a Cell returns Nothing with the
\* ReferenceError kModuleExportUndefined pending, and leaves every Cell, the
\* table, the status, the recorded error and the capability as they were.
C3_SetExportUndeclared ==
    [][(last'.op = "SetExport" /\ ~IsCell(Lookup(exports, last'.name))) =>
         /\ last'.ret = "Nothing"
         /\ pending_exception' =
                NewReferenceError(kModuleExportUndefined, last'.name)
         /\ UNCHANGED <<cells, exports, status, exception,
                        top_level_capability, lastWrite>>]_vars

C3_Witness ==
    /\ Prepared
    /\ export_names = <<"a">>
    /\ lastWrite["a"] = Smi(42)
    /\ last.op = "SetExport"
    /\ last.name = "b"
    /\ last.ret = "Nothing"
    /\ pending_exception = NewReferenceError(kModuleExportUndefined, "b")
    /\ ExportValue("a") = Smi(42)

\* C4: a name that has a Cell keeps that very Cell through every call,
\* ResolveExport returns it, and two names never have the same Cell.
C4_CellIdentity ==
    [][/\ \A n \in Names :
             IsCell(Lookup(exports, n)) => Lookup(exports', n) = Lookup(exports, n)
       /\ \A n \in Names, m \in Names :
             (n # m /\ IsCell(Lookup(exports', n))) =>
                 Lookup(exports', n) # Lookup(exports', m)
       /\ (last'.op = "ResolveExport" /\ last'.ret = "cell") =>
             last'.obj = Lookup(exports', last'.name)]_vars

C4_Witness ==
    /\ export_names = <<"a", "b">>
    /\ Prepared
    /\ status = kEvaluated
    /\ lastWrite["a"] # TheHole
    /\ last.op = "ResolveExport"
    /\ last.name = "b"
    /\ last.obj = CellRef(2)
    /\ Lookup(exports, "a") = CellRef(1)

\* C5 as claimed: an Evaluate call on a module that is not kLinked stops with
\* a fatal error before the host is called, so the host is called at most once.
C5_EvaluateGuarded ==
    [][/\ (last'.op = "EvaluateEnter" /\ status # kLinked) =>
             (fatal' /\ host_calls' = host_calls)
       /\ host_calls' <= 1]_vars

\* C5 amended: Evaluate checks no status. Every Evaluate call, whatever the
\* status (a second or a re-entrant call too), sets the status to kEvaluating
\* and calls the host once, so the host has been called exactly as often as
\* Evaluate.
C5_EvaluateCallsHostEachTime ==
    [][/\ last'.op = "EvaluateEnter" =>
             /\ status' = kEvaluating
             /\ host_calls' = host_calls + 1
             /\ depth' = depth + 1
             /\ ~fatal'
       /\ host_calls' = evaluate_calls']_vars

C5_Witness ==
    /\ last.op = "EvaluateEnter"
    /\ evaluate_calls = 2
    /\ host_calls = 2
    /\ depth = 2

\* C6 as claimed: no module sees PrepareInstantiate return twice.
C6_PrepareOnce == prepare_returns <= 1

\* C6 amended: a second PrepareInstantiate on a module that declares at least
\* one export name stops at the CHECK of the first name and does not return;
\* on a module that declares none it returns true and changes nothing.
C6_SecondPrepare ==
    [][(last'.op = "PrepareInstantiate" /\ Prepared) =>
         IF export_names = <<>>
         THEN /\ last'.ret = "true"
              /\ ~fatal'
              /\ UNCHANGED <<exports, cells, status>>
         ELSE /\ last'.ret = "fatal"
              /\ fatal'
              /\ prepare_returns' = prepare_returns
              /\ exports' = exports]_vars

C6_Witness ==
    /\ export_names = <<"a", "b">>
    /\ last.op = "PrepareInstantiate"
    /\ last.ret = "fatal"
    /\ prepare_returns = 1
    /\ fatal

\* C7: when the host returns a promise, pending or resolved, Evaluate makes
\* that promise the top-level capability, creates no promise, changes no
\* promise, and sets the status to kEvaluated.
C7_HostPromiseKept ==
    [][(last'.op = "Evaluate" /\ IsJSPromise(last'.value)) =>
         /\ top_level_capability' = last'.value
         /\ promises' = promises
         /\ status' = kEvaluated
         /\ last'.ret = "value"]_vars

C7_Witness ==
    /\ last.op = "Evaluate"
    /\ last.value = PromiseRef(1)
    /\ top_level_capability = PromiseRef(1)
    /\ promises[1].state = "pending"
    /\ Len(promises) = Len(HostPromises)
    /\ status = kEvaluated

\* C8: when the host throws e, Evaluate returns empty, the recorded error is
\* e, the status is not kEvaluated, and the top-level capability is not
\* assigned: it is what it was, and unset when this is the only Evaluate call.
C8_HostThrows ==
    [][(last'.op = "Evaluate" /\ last'.thrown # NoException) =>
         /\ last'.ret = "empty"
         /\ exception' = last'.thrown
         /\ status' # kEvaluated
         /\ top_level_capability' = top_level_capability
         /\ promises' = promises
         /\ evaluate_calls = 1 => top_level_capability' = Undefined]_vars

C8_Witness ==
    /\ last.op = "Evaluate"
    /\ last.ret = "empty"
    /\ last.thrown = NewError("thrown", "", <<"boom">>)
    /\ exception = NewError("thrown", "", <<"boom">>)
    /\ evaluate_calls = 1
    /\ top_level_capability = Undefined
    /\ status = kErrored

\* The host's last write was SetExportStrict("a", 42) and it then returned a
\* value that is no promise.
ScenarioA ==
    /\ last.op = "Evaluate"
    /\ last.ret = "value"
    /\ ~IsJSPromise(last.value)
    /\ host_write = [name |-> "a", value |-> Smi(42), strict |-> TRUE]

\* C9 as claimed: in scenario A the Cell of "a" holds 42 and the capability
\* Evaluate made is resolved with the value the host returned.
C9_ResolvedWithHostValue ==
    ScenarioA =>
        /\ ExportValue("a") = Smi(42)
        /\ IsJSPromise(top_level_capability)
        /\ promises[top_level_capability.v] = Fulfilled(last.value)

\* C9 amended: in scenario A the Cell of "a" holds 42 and the capability
\* Evaluate made is resolved with undefined, not with the value returned.
C9_ResolvedWithUndefined ==
    ScenarioA =>
        /\ ExportValue("a") = Smi(42)
        /\ IsJSPromise(top_level_capability)
        /\ promises[top_level_capability.v] = Fulfilled(Undefined)
        /\ last.obj = last.value

C9_Witness ==
    /\ ScenarioA
    /\ evaluate_calls = 1
    /\ last.value = Smi(7)
    /\ ExportValue("a") = Smi(42)
    /\ promises[top_level_capability.v] = Fulfilled(Undefined)

\* C10: when the host returns a value that is no promise, Evaluate creates a
\* promise, resolves it with undefined and not with that value, and makes it
\* the top-level capability.
C10_SynthesizedCapability ==
    [][(last'.op = "Evaluate" /\ last'.ret = "value" /\ ~IsJSPromise(last'.value)) =>
         /\ Len(promises') = Len(promises) + 1
         /\ top_level_capability' = PromiseRef(Len(promises'))
         /\ promises'[Len(promises')] = Fulfilled(Undefined)
         /\ promises'[Len(promises')].result # last'.value
         /\ \A i \in 1..Len(promises) : promises'[i] = promises[i]]_vars

C10_Witness ==
    /\ last.op = "Evaluate"
    /\ last.value = Smi(7)
    /\ top_level_capability = PromiseRef(Len(HostPromises) + 1)
    /\ promises[Len(HostPromises) + 1] = Fulfilled(Undefined)
    /\ status = kEvaluated

\* C11: a successful Evaluate returns the value the host returned: the host's
\* promise when it returned one, the host's plain value, which is not the
\* capability Evaluate made, when it did not.
C11_ReturnsHostValue ==
    [][(last'.op = "Evaluate" /\ last'.thrown = NoException) =>
         /\ last'.ret = "value"
         /\ last'.obj = last'.value
         /\ IsJSPromise(last'.value) => last'.obj = top_level_capability'
         /\ ~IsJSPromise(last'.value) => last'.obj # top_level_capability']_vars

C11_Witness ==
    /\ last.op = "Evaluate"
    /\ last.ret = "value"
    /\ last.value = Smi(7)
    /\ last.obj = Smi(7)
    /\ IsJSPromise(top_level_capability)
    /\ depth = 0

\* The order of the status values; kErrored is last.
Rank(s) ==
    CASE s = kUnlinked -> 0
      [] s = kLinking -> 1
      [] s = kLinked -> 2
      [] s = kEvaluating -> 3
      [] s = kEvaluated -> 4
      [] s = kErrored -> 5
\* A step from status s to status t that goes back, or leaves a final status.
Regress(s, t) == Rank(t) < Rank(s) \/ (s \in {kEvaluated, kErrored} /\ t # s)
StatusKeepers == {"SetExport", "SetExportStrict", "ResolveExport", "PrepareInstantiate"}

\* C12 as claimed: no call moves the status to an earlier state, and once it
\* is kEvaluated or kErrored no call changes it.
C12_StatusMonotonic == [][~Regress(status, status')]_vars

\* C12 amended: SetExport, SetExportStrict, ResolveExport and
\* PrepareInstantiate never change the status, and the status goes back only
\* when a call is made out of its place: FinishInstantiate on a module that
\* is kEvaluating or later sets it back to kLinked, Evaluate on a module that
\* is kEvaluated or kErrored sets it to kEvaluating, and the end of an
\* Evaluate sets kEvaluated or kErrored over the final status a call
\* re-entered from the host left.
C12_StatusRegressesOnlyOutOfPlace ==
    [][/\ last'.op \in StatusKeepers => status' = status
       /\ last'.op = "FinishInstantiate" => status' = kLinked
       /\ Regress(status, status') =>
            \/ /\ last'.op = "FinishInstantiate"
               /\ Rank(status) > Rank(kLinked)
            \/ /\ last'.op = "EvaluateEnter"
               /\ status \in {kEvaluated, kErrored}
               /\ status' = kEvaluating
            \/ /\ last'.op = "Evaluate"
               /\ status \in {kEvaluated, kErrored}
               /\ status' \in {kEvaluated, kErrored}
               /\ evaluate_calls > 1]_vars

C12_Witness ==
    /\ last.op = "FinishInstantiate"
    /\ status = kLinked
    /\ evaluate_calls = 1
    /\ depth = 0
    /\ IsJSPromise(top_level_capability)

\* C13: once PrepareInstantiate has returned, the keys of the export table
\* are the declared export names, each with a Cell, in every later state, and
\* no call changes the table.
C13_KeySetFixed ==
    [][Prepared' =>
         /\ DOMAIN exports' = Declared
         /\ \A n \in Declared : IsCell(exports'[n])
         /\ Prepared => exports' = exports]_vars

C13_Witness ==
    /\ Prepared
    /\ export_names = <<"a">>
    /\ DOMAIN exports = {"a"}
    /\ status = kEvaluated
    /\ lastWrite["a"] = Smi(42)
    /\ last.op = "SetExport"
    /\ last.name = "b"
    /\ last.ret = "Nothing"

\* C14 as claimed: PrepareInstantiate on a kUnlinked module leaves it
\* kLinking.
C14_PrepareSetsLinking ==
    [][(last'.op = "PrepareInstantiate" /\ last'.ret = "true"
        /\ status = kUnlinked) => status' = kLinking]_vars

\* C14 amended: PrepareInstantiate does not touch the status, so after it
\* returns on a kUnlinked module the status is still kUnlinked, never
\* kLinking; FinishInstantiate then sets kLinked and returns true.
C14_PrepareKeepsStatus ==
    [][/\ last'.op = "PrepareInstantiate" => status' = status
       /\ status' # kLinking
       /\ last'.op = "FinishInstantiate" =>
            /\ status' = kLinked
            /\ last'.ret = "true"
            /\ ~fatal']_vars

C14_Witness ==
    /\ last.op = "PrepareInstantiate"
    /\ last.ret = "true"
    /\ export_names = <<"a", "b">>
    /\ DOMAIN exports = {"a", "b"}
    /\ status = kUnlinked

\* C15: when Evaluate returns, the status is not kEvaluating: it is
\* kEvaluated when the host returned a value, and kErrored, with the error
\* recorded, when the host threw.
C15_EvaluateEndsFinal ==
    last.op = "Evaluate" =>
        /\ status # kEvaluating
        /\ last.thrown = NoException => (status = kEvaluated /\ last.ret = "value")
        /\ last.thrown # NoException =>
             /\ status = kErrored
             /\ last.ret = "empty"
             /\ exception = last.thrown

C15_Witness ==
    /\ last.op = "Evaluate"
    /\ last.thrown = NewError("thrown", "", <<"bang">>)
    /\ status = kErrored
    /\ exception = NewError("thrown", "", <<"bang">>)
    /\ evaluate_calls = 2
    /\ depth = 1

\* The host threw in the call that `c` records.
Failed(c) == c.op = "Evaluate" /\ c.thrown # NoException
\* The host returned in the call that `c` records.
Succeeded(c) == c.op = "Evaluate" /\ c.thrown = NoException

\* C16 as claimed: an error is recorded exactly when the status is kErrored,
\* and a recorded error is never overwritten or cleared.
C16_ErrorIffErrored ==
    [][/\ (exception' # NoException) <=> (status' = kErrored)
       /\ exception # NoException => exception' = exception]_vars

\* C16 amended: only a failing Evaluate records an error: it records the
\* error thrown, over an earlier one if there is one, and sets kErrored in the
\* same step; no other call, a failing SetExport or ResolveExport included,
\* sets, changes or clears the recorded error.  So a kErrored module always
\* has its error, but a module with an error need not be kErrored.
C16_ErrorRecordedByFailingEvaluate ==
    [][/\ status' = kErrored => exception' # NoException
       /\ Failed(last') => (exception' = last'.thrown /\ status' = kErrored)
       /\ ~Failed(last') => exception' = exception]_vars

C16_Witness ==
    /\ exception = NewError("thrown", "", <<"boom">>)
    /\ status = kLinked
    /\ last.op = "FinishInstantiate"
    /\ pending_exception = NewReferenceError(kModuleExportUndefined, "b")

\* C17 as claimed: when no Evaluate is running the capability is set exactly
\* when the status is kEvaluated, and once set it is never assigned again.
C17_CreateOnce ==
    [][/\ depth' = 0 =>
            (IsJSPromise(top_level_capability') <=> status' = kEvaluated)
       /\ IsJSPromise(top_level_capability) =>
            top_level_capability' = top_level_capability]_vars

\* C17 amended: the capability is unset until an Evaluate succeeds; only a
\* successful Evaluate assigns it, and every successful Evaluate does, a
\* second one over the capability of the first; no other call assigns or
\* clears it.  So a kEvaluated module always has a capability, but a module
\* with a capability need not be kEvaluated.
C17_AssignedBySuccessfulEvaluate ==
    [][/\ top_level_capability' # top_level_capability => Succeeded(last')
       /\ Succeeded(last') =>
            /\ IsJSPromise(top_level_capability')
            /\ IsJSPromise(last'.value) => top_level_capability' = last'.value
            /\ ~IsJSPromise(last'.value) =>
                 /\ Len(promises') = Len(promises) + 1
                 /\ top_level_capability' = PromiseRef(Len(promises'))
       /\ status' = kEvaluated => IsJSPromise(top_level_capability')
       /\ evaluate_calls' = 0 => top_level_capability' = Undefined]_vars

C17_Witness ==
    /\ last.op = "Evaluate"
    /\ last.value = PromiseRef(2)
    /\ top_level_capability = PromiseRef(2)
    /\ Len(promises) = Len(HostPromises) + 1
    /\ evaluate_calls = 2
    /\ depth = 0

\* C18: SetExportStrict of a name with a Cell writes the value into that Cell
\* and changes nothing else; of a name without a Cell it stops at its CHECK:
\* no Cell is written and no exception is raised.
C18_SetExportStrict ==
    [][last'.op = "SetExportStrict" =>
         LET o == Lookup(exports, last'.name)
         IN IF IsCell(o)
            THEN /\ last'.ret = "void"
                 /\ ~fatal'
                 /\ cells' = [cells EXCEPT ![o.v] = last'.value]
                 /\ UNCHANGED <<exports, status, exception, promises,
                                top_level_capability, pending_exception>>
            ELSE /\ last'.ret = "fatal"
                 /\ fatal'
                 /\ UNCHANGED <<cells, exports, status, exception, promises,
                                top_level_capability, pending_exception>>]_vars

C18_Witness ==
    /\ last.op = "SetExportStrict"
    /\ last.name = "b"
    /\ last.ret = "fatal"
    /\ fatal
    /\ export_names = <<"a">>
    /\ Prepared
    /\ lastWrite["a"] = Smi(42)
    /\ ExportValue("a") = Smi(42)
    /\ pending_exception = NoException

\* The indices of export_names whose name the table, or an earlier index,
\* already has.
Repeats ==
    {i \in 1..Len(export_names) :
        \/ export_names[i] \in DOMAIN exports
        \/ \E j \in 1..(i - 1) : export_names[j] = export_names[i]}
FirstRepeat == CHOOSE i \in Repeats : \A j \in Repeats : i <= j

\* C19: PrepareInstantiate on a list with a name the table already has, or
\* with a name twice, stops at the CHECK of the first such name: it does not
\* return, raises no exception, and every entry, those made before the stop
\* included, keeps the Cell it was first given.
C19_PrepareNeverOverwrites ==
    [][(last'.op = "PrepareInstantiate" /\ Repeats # {}) =>
         /\ last'.ret = "fatal"
         /\ fatal'
         /\ prepare_returns' = prepare_returns
         /\ pending_exception' = pending_exception
         /\ Len(cells') = Len(cells) + FirstRepeat
         /\ \A n \in DOMAIN exports :
              n \in DOMAIN exports' /\ exports'[n] = exports[n]
         /\ \A n \in (DOMAIN exports') \ (DOMAIN exports) :
              \E i \in 1..(FirstRepeat - 1) :
                 /\ export_names[i] = n
                 /\ \A j \in 1..(i - 1) : export_names[j] # n
                 /\ exports'[n] = CellRef(Len(cells) + i)]_vars

C19_Witness ==
    /\ last.op = "PrepareInstantiate"
    /\ last.ret = "fatal"
    /\ fatal
    /\ export_names = <<"a", "a">>
    /\ prepare_returns = 0
    /\ DOMAIN exports = {"a"}
    /\ exports["a"] = CellRef(1)
    /\ Len(cells) = Len(export_names)

\* C20: PrepareInstantiate on a list of distinct names, none in the table,
\* returns true and gives each name a new Cell of its own holding undefined;
\* and until the first write to a declared name ResolveExport yields a Cell
\* that holds undefined.
C20_FreshUndefinedCells ==
    [][/\ (last'.op = "PrepareInstantiate" /\ Repeats = {}) =>
            /\ last'.ret = "true"
            /\ ~fatal'
            /\ Len(cells') = Len(cells) + Len(export_names)
            /\ \A j \in 1..Len(cells) : cells'[j] = cells[j]
            /\ \A i \in 1..Len(export_names) :
                 /\ Lookup(exports', export_names[i]) = CellRef(Len(cells) + i)
                 /\ cells'[Len(cells) + i] = Undefined
       /\ \A n \in Declared :
            (Prepared' /\ lastWrite'[n] = TheHole) =>
                LET r == ResolveExportResult("m", n, TRUE)'
                IN /\ r.ret = "cell"
                   /\ IsCell(r.obj)
                   /\ cells'[r.obj.v] = Undefined]_vars

C20_Witness ==
    /\ export_names = <<"a", "b">>
    /\ Prepared
    /\ lastWrite["a"] = Smi(7)
    /\ lastWrite["b"] = TheHole
    /\ last.op = "ResolveExport"
    /\ last.name = "b"
    /\ last.ret = "cell"
    /\ ExportValue("b") = Undefined
    /\ status = kEvaluating

\* The calls C21 names as leaving the Cells alone.
CellKeepers == {"FinishInstantiate", "ResolveExport", "EvaluateEnter", "Evaluate"}
\* The call that `c` records is a SetExport or SetExportStrict that wrote.
Wrote(c) ==
    \/ c.op = "SetExport" /\ c.ret = "Just(true)"
    \/ c.op = "SetExportStrict" /\ c.ret = "void"

\* C21: only a successful SetExport, direct or through SetExportStrict,
\* changes the value of a Cell, and it changes the Cell of its name alone:
\* FinishInstantiate, ResolveExport (found, not found or throwing), a failing
\* SetExport or SetExportStrict, and Evaluate (its entry, and its end after
\* the host returned or threw: status, recorded error, capability) leave the
\* heap of Cells as it was, and PrepareInstantiate only adds Cells.
C21_OnlySetExportWrites ==
    [][/\ last'.op \in CellKeepers => cells' = cells
       /\ (last'.op \in {"SetExport", "SetExportStrict"} /\ ~Wrote(last')) =>
             cells' = cells
       /\ Len(cells') >= Len(cells)
       /\ \A j \in 1..Len(cells) :
             cells'[j] # cells[j] =>
                /\ Wrote(last')
                /\ Lookup(exports, last'.name) = CellRef(j)
                /\ cells'[j] = last'.value]_vars

C21_Witness ==
    /\ Prepared
    /\ export_names = <<"a">>
    /\ status = kErrored
    /\ exception # NoException
    /\ last.op = "SetExport"
    /\ last.name = "b"
    /\ last.ret = "Nothing"
    /\ ExportValue("a") = Smi(42)

\* The value, after the step, in the cell of a name that has one.
ExportValueAfter(name) == cells'[Lookup(exports', name).v]

\* C22: Evaluate sets kEvaluating before the host evaluation steps run, the
\* host's SetExport and SetExportStrict calls keep that status and, on a
\* declared name of a prepared module, succeed and put the value in the Cell
\* of the name; and the end of Evaluate, after the host returned a value as
\* after it threw, changes no Cell and no table entry: every name still
\* holds the value last written to it, the host's last write included, while
\* the failing Evaluate records the error.
C22_HostWritesKept ==
    [][/\ last'.op = "EvaluateEnter" =>
             (status' = kEvaluating /\ depth' = depth + 1)
       /\ (depth > 0 /\ last'.op \in {"SetExport", "SetExportStrict"}) =>
             /\ status' = status
             /\ (Prepared /\ last'.name \in Declared) =>
                   /\ Wrote(last')
                   /\ ~fatal'
                   /\ pending_exception' = pending_exception
                   /\ ExportValueAfter(last'.name) = last'.value
                   /\ host_write' = [name |-> last'.name, value |-> last'.value,
                                     strict |-> last'.op = "SetExportStrict"]
       /\ last'.op = "Evaluate" =>
             /\ cells' = cells
             /\ exports' = exports
             /\ host_write' = host_write
             /\ host_write # NoWrite =>
                   ExportValueAfter(host_write.name) = host_write.value
             /\ \A n \in Names :
                   lastWrite[n] # TheHole => ExportValueAfter(n) = lastWrite[n]
             /\ Failed(last') =>
                   (exception' = last'.thrown /\ status' = kErrored)
             /\ Succeeded(last') => status' = kEvaluated]_vars

C22_Witness ==
    /\ last.op = "Evaluate"
    /\ last.thrown = NewError("thrown", "", <<"boom">>)
    /\ last.ret = "empty"
    /\ evaluate_calls = 1
    /\ depth = 0
    /\ status = kErrored
    /\ exception = NewError("thrown", "", <<"boom">>)
    /\ host_write = [name |-> "a", value |-> Smi(42), strict |-> FALSE]
    /\ lastWrite["b"] = Smi(7)
    /\ ExportValue("a") = Smi(42)
    /\ ExportValue("b") = Smi(7)

\* C23: a register representation other than Compressed, converted to a
\* memory representation with either signedness and back, is itself:
\* whenever ToRegisterRepresentation is applied to a memory representation
\* that FromRegisterRepresentation made, the result is the register
\* representation it was made from, and FromRegisterRepresentation stops at
\* UNREACHABLE for Compressed alone; and ToRegisterRepresentation of a memory
\* representation that is a word is a word.
C23_RoundTrip ==
    /\ (rep_last.op = "ToRegisterRepresentation"
          /\ rep_last.made_from # NoRepresentation) =>
            /\ rep_last.made_from # Compressed
            /\ register_rep = rep_last.made_from
    /\ rep_last.op = "FromRegisterRepresentation" =>
            /\ fatal <=> register_rep = Compressed
            /\ ~fatal => rep_last.made_from = register_rep
    /\ (rep_last.op = "ToRegisterRepresentation" /\ MemoryIsWord(memory_rep)) =>
            RegisterIsWord(register_rep)

C23_Witness ==
    /\ rep_last.op = "ToRegisterRepresentation"
    /\ rep_last.made_from = Word64
    /\ rep_last.is_signed
    /\ memory_rep = Int64
    /\ MemoryIsWord(memory_rep)
    /\ register_rep = Word64

\* C24 as claimed: the register representation a memory representation is
\* loaded into has at least 8 bits for each byte of the memory
\* representation, whose size in bytes is 2 to the power SizeInBytesLog2.
C24_RegisterWideEnough ==
    rep_last.op = "ToRegisterRepresentation" =>
        /\ SizeInBytes(memory_rep) = 2 ^ SizeInBytesLog2(memory_rep)
        /\ bit_width(register_rep) >= 8 * SizeInBytes(memory_rep)

\* A tagged slot of 4 bytes loaded, on a build with pointers of 8 bytes, into
\* a register representation whose bit_width is 8.
C24_Witness ==
    /\ rep_last.op = "ToRegisterRepresentation"
    /\ memory_rep = AnyTagged
    /\ register_rep = Tagged
    /\ kSystemPointerSize = 8
    /\ SizeInBytes(memory_rep) = 4
    /\ bit_width(register_rep) = 8

Next ==
    \/ \E n \in Names, v \in ExportValues : SetExport(n, v)
    \/ \E n \in Names, v \in ExportValues : SetExportStrict(n, v)
    \/ \E s \in Specifiers, n \in Names, m \in BOOLEAN : ResolveExport(s, n, m)
    \/ PrepareInstantiate
    \/ FinishInstantiate
    \/ EvaluateEnter
    \/ \E result \in HostResults : EvaluateHostReturns(result)
    \/ \E error \in HostErrors : EvaluateHostThrows(error)

Spec == Init /\ [][Next]_vars

RepNext ==
    \/ ToRegisterRepresentationCall
    \/ \E is_signed \in BOOLEAN : FromRegisterRepresentationCall(is_signed)

RepSpec == RepInit /\ [][RepNext]_vars

=============================================================================
